---------------------------- MODULE Spec2Model ----------------------------
(***************************************************************************)
(* The heatmap interpolation compute shader (the WGSL text held in         *)
(* interpolation.shaderCode of HeatmapSeriesDefaults.ts), as a state       *)
(* machine of GPU invocations.                                             *)
(*                                                                         *)
(* One invocation ("thread") is a pair <<workgroup_id, local_id>>.  Every  *)
(* access of an invocation to memory that another invocation can touch     *)
(* (the workgroup variables, the storage buffers) is a step of its own,    *)
(* so TLC explores every interleaving of the unsynchronised accesses to    *)
(* local_min and local_max.  Reads of the uniform params and of pixelData, *)
(* which no invocation writes, are taken together with the step that       *)
(* follows them.  The lets min_luminance and max_luminance are set back to *)
(* 0 after their last use, which no statement can observe.  The atomicAdd  *)
(* on vectors_length and the store into the slot it returned are one step: *)
(* no other invocation accesses that slot before the barrier.              *)
(*                                                                         *)
(* A u32 colour is kept as its four bytes <<bits 24-31, bits 16-23,        *)
(* bits 8-15, bits 0-7>>; counters and indices are naturals.  A luminance  *)
(* is kept exactly, in units of 1/2550000, in place of its f32 rounding.   *)
(***************************************************************************)
EXTENDS Integers, Sequences, FiniteSets, TLC

VARIABLES
    params,                 \* uniform Params: [width, height, debug]
    chunk_width,            \* build-time constant of the shader text
    chunk_height,           \* build-time constant of the shader text
    pixelData,              \* storage buffer, binding 3
    resultArrayList,        \* storage buffer, binding 0
    belowMinLength,         \* belowMinMatrix.length, binding 1
    debugData,              \* storage buffer, binding 4
    vectors,                \* var<workgroup>, one array per workgroup
    vectors_length,         \* var<workgroup> atomic<u32>, per workgroup
    local_min,              \* var<workgroup> u32, per workgroup
    local_max,              \* var<workgroup> u32, per workgroup
    pc,                     \* per invocation: the statement it is at
    min_luminance,          \* per invocation: let min_luminance
    max_luminance,          \* per invocation: let max_luminance
    current_vector_length,  \* per invocation: let current_vector_length
    i,                      \* per invocation: var i of the fill loop
    run,                    \* number of the dispatch in progress
    lengthBefore,           \* belowMinLength when this dispatch started
    filled,                 \* history: per workgroup and list entry, the
                            \* number of fill-loop iterations that took it
    isOpen,                 \* Fullscreen.isOpen
    unbindFullscreenEvent,  \* Fullscreen.unbindFullscreenEvent: 0 when
                            \* undefined, else the listener it unbinds
    listeners,              \* fullscreenchange listeners bound on the
                            \* document, in the order they were added
    opens,                  \* number of listeners open() has created
    displayed,              \* the container is the fullscreen element
    tasks,                  \* requestFullscreen / exitFullscreen calls the
                            \* browser has not acted on yet
    events,                 \* fullscreenchange events not yet delivered
    calls,                  \* history: [request, exit, errors], the
                            \* number of calls made and of errors thrown
    colorArg,               \* the u32 last packed by RGBA
    vectorOut,              \* colorVector of it times 255, <<>> before
                            \* the call
    luminanceOut            \* srgbLuminance of it, -1 before the call

config == <<params, chunk_width, chunk_height>>
buffers == <<pixelData, resultArrayList, belowMinLength, debugData>>
shared == <<vectors, vectors_length, local_min, local_max>>
locals == <<min_luminance, max_luminance, current_vector_length, i>>
fullscreenVars == <<isOpen, unbindFullscreenEvent, listeners, opens,
                    displayed, tasks, events, calls>>
kernelVars == <<config, buffers, shared, pc, locals, run, lengthBefore, filled>>
colourVars == <<colorArg, vectorOut, luminanceOut>>
vars == <<kernelVars, fullscreenVars, colourVars>>

---------------------------------------------------------------------------
(* Bounds of the model.                                                    *)

\* A dispatch has at most MaxThreads invocations, over all its workgroups;
\* since the workgroups cover the image, an image has at most MaxThreads
\* pixels.
MaxThreads == 2
\* The kernel is dispatched at most MaxRuns times, each on the result of
\* the one before.
MaxRuns == 2
\* Fullscreen.open() runs at most MaxOpens times.
MaxOpens == 3

---------------------------------------------------------------------------
(* Colours.                                                                *)

\* The u32 n, for n < 256.
U32(n) == <<0, 0, 0, n>>

Sentinel == U32(0)

RGBA(r, g, b, a) == <<r, g, b, a>>

\* (color >> shift) & 0xff, for shift in {24, 16, 8, 0}.
ShiftByte(color, shift) == color[4 - (shift \div 8)]

\* Defect: the byte at shift 16 read as g and the byte at shift 8 as b.
colorVectorRGB(color) ==
    LET r == ShiftByte(color, 24)
        g == ShiftByte(color, 16)
        b == ShiftByte(color, 8)
    IN  <<r, g, b>>

\* The three channels times 255, in the order of the returned vec3f.
colorVector(color) ==
    LET r == ShiftByte(color, 24)
        b == ShiftByte(color, 16)
        g == ShiftByte(color, 8)
    IN  <<r, g, b>>

kSRGBLuminanceFactors == <<2126, 7152, 722>>

dot(u, v) == u[1] * v[1] + u[2] * v[2] + u[3] * v[3]

\* clamp to [0, 1], here [0, 255 * 10000]
saturate(x) == IF x < 0 THEN 0 ELSE IF x > 2550000 THEN 2550000 ELSE x

srgbLuminance(color) ==
    LET color_vector == colorVector(color)
    IN  saturate(dot(color_vector, kSRGBLuminanceFactors))

SeedMin == RGBA(255, 255, 255, 255)

\* Defect: local_max seeded with plain black, which is the sentinel.
SeedMaxBlack == RGBA(0, 0, 0, 0)

SeedMax == RGBA(1, 0, 0, 0)

\* Pixel values the image is drawn from: the sentinel, the plain number 5
\* (luminance 0, below that of SeedMax) and a colour brighter than SeedMax.
PixelValues == {Sentinel, U32(5), RGBA(2, 0, 0, 0)}

\* Values of params.debug: off, on, and a flag that is neither 0 nor 1.
DebugFlags == {0, 1, 2}

---------------------------------------------------------------------------
(* Geometry of a dispatch.                                                 *)

chunk_size == chunk_width * chunk_height

\* @workgroup_size(chunk_height, chunk_width): x extent, then y extent.
WorkgroupSizeX == chunk_height
WorkgroupSizeY == chunk_width

CeilDiv(a, b) == (a + b - 1) \div b

\* The grid of workgroups covers the image.
NumGroupsX == CeilDiv(params.width, WorkgroupSizeX)
NumGroupsY == CeilDiv(params.height, WorkgroupSizeY)

Workgroups == (0 .. NumGroupsX - 1) \X (0 .. NumGroupsY - 1)
LocalIds == (0 .. WorkgroupSizeX - 1) \X (0 .. WorkgroupSizeY - 1)
Threads == Workgroups \X LocalIds

workgroup_id(t) == t[1]
local_id(t) == t[2]
global_id(t) ==
    << workgroup_id(t)[1] * WorkgroupSizeX + local_id(t)[1],
       workgroup_id(t)[2] * WorkgroupSizeY + local_id(t)[2] >>
local_index(t) == local_id(t)[1] + local_id(t)[2] * WorkgroupSizeX

position(t) == global_id(t)
\* let index = global_id.y * size.x + global_id.x
index(t) == global_id(t)[2] * params.width + global_id(t)[1]
\* Defect: the bounds check lets the first position past each edge through.
InBoundsInclusive(pos) == pos[1] <= params.width /\ pos[2] <= params.height

\* all(position < size)
InBounds(pos) == pos[1] < params.width /\ pos[2] < params.height

ThreadsOf(w) == {t \in Threads : workgroup_id(t) = w}

---------------------------------------------------------------------------
(* Initial state: the buffers as the host binds them, the workgroup        *)
(* variables zero-initialised, every invocation at the first statement.    *)

ZeroVec == <<0, 0, 0>>

FreshShared(cw, ch, nx, ny) ==
    /\ vectors = [w \in (0 .. nx - 1) \X (0 .. ny - 1) |->
                     [k \in 0 .. cw * ch - 1 |-> ZeroVec]]
    /\ vectors_length = [w \in (0 .. nx - 1) \X (0 .. ny - 1) |-> 0]
    /\ local_min = [w \in (0 .. nx - 1) \X (0 .. ny - 1) |-> Sentinel]
    /\ local_max = [w \in (0 .. nx - 1) \X (0 .. ny - 1) |-> Sentinel]

FreshLocals(T) ==
    /\ pc = [t \in T |-> "seed_min"]
    /\ min_luminance = [t \in T |-> 0]
    /\ max_luminance = [t \in T |-> 0]
    /\ current_vector_length = [t \in T |-> 0]
    /\ i = [t \in T |-> 0]

Dispatch(w, h, cw, ch, dbg, pixels) ==
    LET nx == CeilDiv(w, ch)
        ny == CeilDiv(h, cw)
        T == ((0 .. nx - 1) \X (0 .. ny - 1)) \X ((0 .. ch - 1) \X (0 .. cw - 1))
    IN  /\ params = [width |-> w, height |-> h, debug |-> dbg]
        /\ chunk_width = cw
        /\ chunk_height = ch
        /\ pixelData = pixels
        /\ resultArrayList = [k \in 0 .. w * h - 1 |-> Sentinel]
        /\ belowMinLength = 0
        /\ debugData = [k \in 0 .. nx * ny - 1 |-> 0]
        /\ FreshShared(cw, ch, nx, ny)
        /\ FreshLocals(T)
        /\ run = 1
        /\ lengthBefore = 0
        /\ filled = [g \in (0 .. nx - 1) \X (0 .. ny - 1) |->
                        [k \in 0 .. cw * ch - 1 |-> 0]]

\* Fullscreen's constructor, in a document that shows nothing in fullscreen.
Constructed ==
    /\ isOpen = FALSE
    /\ unbindFullscreenEvent = 0
    /\ listeners = <<>>
    /\ opens = 0
    /\ displayed = FALSE
    /\ tasks = <<>>
    /\ events = 0
    /\ calls = [request |-> 0, exit |-> 0, errors |-> 0]

\* No colour function has been called.
NoCall ==
    /\ colorArg = <<0, 0, 0, 0>>
    /\ vectorOut = <<>>
    /\ luminanceOut = -1

Init ==
    \E w \in 1 .. MaxThreads, h \in 1 .. MaxThreads,
       cw \in 1 .. MaxThreads, ch \in 1 .. MaxThreads, dbg \in DebugFlags :
        /\ CeilDiv(w, ch) * CeilDiv(h, cw) * cw * ch <= MaxThreads
        /\ \E pixels \in [0 .. w * h - 1 -> PixelValues] :
              Dispatch(w, h, cw, ch, dbg, pixels)
        /\ Constructed
        /\ NoCall

---------------------------------------------------------------------------
(* The statements of main, one action per access to shared memory.         *)

pixel(t) == pixelData[index(t)]

\* Defect: an invocation outside the image returns at the bounds check.
AfterSeedEarlyReturn(t) ==
    IF ~InBounds(position(t)) THEN "done"
    ELSE IF pixel(t) = Sentinel THEN "append"
    ELSE "read_min"

\* Where an invocation goes once local_min and local_max are seeded:
\* the bounds check and the two tests on the pixel it loaded.
AfterSeed(t) ==
    IF ~InBounds(position(t)) THEN "barrier"
    ELSE IF pixel(t) = Sentinel THEN "append"
    ELSE "read_min"

\* if (local_min == 0u)
SeedMinTest(t) ==
    /\ pc[t] = "seed_min"
    /\ pc' = [pc EXCEPT ![t] =
                IF local_min[workgroup_id(t)] = Sentinel
                THEN "seed_min_write" ELSE "seed_max"]
    /\ UNCHANGED <<config, buffers, shared, locals, run, lengthBefore, filled, fullscreenVars, colourVars>>

\* local_min = RGBA(255u, 255u, 255u, 255u)
SeedMinWrite(t) ==
    /\ pc[t] = "seed_min_write"
    /\ local_min' = [local_min EXCEPT ![workgroup_id(t)] = SeedMin]
    /\ pc' = [pc EXCEPT ![t] = "seed_max"]
    /\ UNCHANGED <<config, buffers, vectors, vectors_length, local_max,
                   locals, run, lengthBefore, filled, fullscreenVars, colourVars>>

\* if (local_max == 0u)
SeedMaxTest(t) ==
    /\ pc[t] = "seed_max"
    /\ pc' = [pc EXCEPT ![t] =
                IF local_max[workgroup_id(t)] = Sentinel
                THEN "seed_max_write" ELSE AfterSeed(t)]
    /\ UNCHANGED <<config, buffers, shared, locals, run, lengthBefore, filled, fullscreenVars, colourVars>>

\* local_max = RGBA(1u, 0u, 0u, 0u)
SeedMaxWrite(t) ==
    /\ pc[t] = "seed_max_write"
    /\ local_max' = [local_max EXCEPT ![workgroup_id(t)] = SeedMax]
    /\ pc' = [pc EXCEPT ![t] = AfterSeed(t)]
    /\ UNCHANGED <<config, buffers, vectors, vectors_length, local_min,
                   locals, run, lengthBefore, filled, fullscreenVars, colourVars>>

\* Defect: the slot is taken with a load and a later store in place of one
\* atomicAdd, so the load may return a length another invocation has since
\* raised.
AppendVectorNotAtomic(t) ==
    LET w == workgroup_id(t)
    IN  \E vector_index \in 0 .. vectors_length[w] :
            /\ pc[t] = "append"
            /\ vectors_length' = [vectors_length EXCEPT ![w] = vector_index + 1]
            /\ vectors' = [vectors EXCEPT ![w][vector_index] =
                              <<position(t)[1], position(t)[2], 0>>]
            /\ pc' = [pc EXCEPT ![t] = "store"]
            /\ UNCHANGED <<config, buffers, local_min, local_max, locals, run,
                           lengthBefore, filled, fullscreenVars, colourVars>>

\* Defect: the list entry holds the position within the tile (local_id),
\* not the position within the image.
AppendVectorLocal(t) ==
    LET w == workgroup_id(t)
        vector_index == vectors_length[w]
    IN  /\ pc[t] = "append"
        /\ vectors_length' = [vectors_length EXCEPT ![w] = vector_index + 1]
        /\ vectors' = [vectors EXCEPT ![w][vector_index] =
                          <<local_id(t)[1], local_id(t)[2], 0>>]
        /\ pc' = [pc EXCEPT ![t] = "store"]
        /\ UNCHANGED <<config, buffers, local_min, local_max, locals, run,
                       lengthBefore, filled, fullscreenVars, colourVars>>

\* let vector_index = atomicAdd(&vectors_length, 1u);
\* vectors[vector_index] = vec3u(position, 0u);
AppendVector(t) ==
    LET w == workgroup_id(t)
        vector_index == vectors_length[w]
    IN  /\ pc[t] = "append"
        /\ vectors_length' = [vectors_length EXCEPT ![w] = vector_index + 1]
        /\ vectors' = [vectors EXCEPT ![w][vector_index] =
                          <<position(t)[1], position(t)[2], 0>>]
        /\ pc' = [pc EXCEPT ![t] = "store"]
        /\ UNCHANGED <<config, buffers, local_min, local_max, locals, run,
                       lengthBefore, filled, fullscreenVars, colourVars>>

\* let min_luminance = srgbLuminance(local_min)
ReadMin(t) ==
    /\ pc[t] = "read_min"
    /\ min_luminance' = [min_luminance EXCEPT ![t] =
                            srgbLuminance(local_min[workgroup_id(t)])]
    /\ pc' = [pc EXCEPT ![t] = "read_max"]
    /\ UNCHANGED <<config, buffers, shared, max_luminance,
                   current_vector_length, i, run, lengthBefore, filled, fullscreenVars, colourVars>>

\* let max_luminance = srgbLuminance(local_max)
ReadMax(t) ==
    /\ pc[t] = "read_max"
    /\ max_luminance' = [max_luminance EXCEPT ![t] =
                            srgbLuminance(local_max[workgroup_id(t)])]
    /\ pc' = [pc EXCEPT ![t] = "write_min"]
    /\ UNCHANGED <<config, buffers, shared, min_luminance,
                   current_vector_length, i, run, lengthBefore, filled, fullscreenVars, colourVars>>

\* if (luminance < min_luminance) { local_min = pixel; }
WriteMin(t) ==
    LET luminance == srgbLuminance(pixel(t))
    IN  /\ pc[t] = "write_min"
        /\ local_min' = IF luminance < min_luminance[t]
                        THEN [local_min EXCEPT ![workgroup_id(t)] = pixel(t)]
                        ELSE local_min
        /\ min_luminance' = [min_luminance EXCEPT ![t] = 0]
        /\ pc' = [pc EXCEPT ![t] = "write_max"]
        /\ UNCHANGED <<config, buffers, vectors, vectors_length, local_max,
                       max_luminance, current_vector_length, i, run,
                       lengthBefore, filled, fullscreenVars, colourVars>>

\* if (luminance > max_luminance) { local_max = pixel; }
WriteMax(t) ==
    LET luminance == srgbLuminance(pixel(t))
    IN  /\ pc[t] = "write_max"
        /\ local_max' = IF luminance > max_luminance[t]
                        THEN [local_max EXCEPT ![workgroup_id(t)] = pixel(t)]
                        ELSE local_max
        /\ max_luminance' = [max_luminance EXCEPT ![t] = 0]
        /\ pc' = [pc EXCEPT ![t] = "store"]
        /\ UNCHANGED <<config, buffers, vectors, vectors_length, local_min,
                       min_luminance, current_vector_length, i, run,
                       lengthBefore, filled, fullscreenVars, colourVars>>

\* resultArrayList[index] = pixel
Store(t) ==
    /\ pc[t] = "store"
    /\ resultArrayList' = [resultArrayList EXCEPT ![index(t)] = pixel(t)]
    /\ pc' = [pc EXCEPT ![t] = "barrier"]
    /\ UNCHANGED <<config, pixelData, belowMinLength, debugData, shared,
                   locals, run, lengthBefore, filled, fullscreenVars, colourVars>>

AfterBarrier == {"load_length", "fill", "accumulate", "debug_write", "done"}

\* Defect: the barrier does not wait for the other invocations.
BarrierNoWait(t) ==
    /\ pc[t] = "barrier"
    /\ pc' = [pc EXCEPT ![t] = "load_length"]
    /\ UNCHANGED <<config, buffers, shared, locals, run, lengthBefore, filled, fullscreenVars, colourVars>>

\* workgroupBarrier(): an invocation leaves it once every invocation of its
\* workgroup has arrived.
Barrier(t) ==
    /\ pc[t] = "barrier"
    /\ \A u \in ThreadsOf(workgroup_id(t)) :
          pc[u] \in {"barrier"} \cup AfterBarrier
    /\ pc' = [pc EXCEPT ![t] = "load_length"]
    /\ UNCHANGED <<config, buffers, shared, locals, run, lengthBefore, filled, fullscreenVars, colourVars>>

\* The loop test i < current_vector_length, on the invocation's own values.
LoopOrExit(k, len) == IF k < len THEN "fill" ELSE "accumulate"

\* let current_vector_length = atomicLoad(&vectors_length);
\* var i = local_index
LoadLength(t) ==
    LET len == vectors_length[workgroup_id(t)]
    IN  /\ pc[t] = "load_length"
        /\ current_vector_length' = [current_vector_length EXCEPT ![t] = len]
        /\ i' = [i EXCEPT ![t] = local_index(t)]
        /\ pc' = [pc EXCEPT ![t] = LoopOrExit(local_index(t), len)]
        /\ UNCHANGED <<config, buffers, shared, min_luminance, max_luminance,
                       run, lengthBefore, filled, fullscreenVars, colourVars>>

\* Defect: the fill writes at the invocation's own index, not at the index
\* of the list entry it claimed.
FillAtOwnIndex(t) ==
    LET w == workgroup_id(t)
    IN  /\ pc[t] = "fill"
        /\ resultArrayList' = [resultArrayList EXCEPT ![index(t)] = local_max[w]]
        /\ i' = [i EXCEPT ![t] = i[t] + chunk_size]
        /\ pc' = [pc EXCEPT ![t] =
                    LoopOrExit(i[t] + chunk_size, current_vector_length[t])]
        /\ filled' = [filled EXCEPT ![w][i[t]] = @ + 1]
        /\ UNCHANGED <<config, pixelData, belowMinLength, debugData, shared,
                       min_luminance, max_luminance, current_vector_length,
                       run, lengthBefore, fullscreenVars, colourVars>>

\* Defect: the fill loop advances by one entry, not by chunk_size.
FillStrideOne(t) ==
    LET w == workgroup_id(t)
        vector == vectors[w][i[t]]
        idx == vector[2] * params.width + vector[1]
    IN  /\ pc[t] = "fill"
        /\ resultArrayList' = [resultArrayList EXCEPT ![idx] = local_max[w]]
        /\ i' = [i EXCEPT ![t] = i[t] + 1]
        /\ pc' = [pc EXCEPT ![t] =
                    LoopOrExit(i[t] + 1, current_vector_length[t])]
        /\ filled' = [filled EXCEPT ![w][i[t]] = @ + 1]
        /\ UNCHANGED <<config, pixelData, belowMinLength, debugData, shared,
                       min_luminance, max_luminance, current_vector_length,
                       run, lengthBefore, fullscreenVars, colourVars>>

\* Defect: the fill writes local_min where it should write local_max.
FillWithLocalMin(t) ==
    LET w == workgroup_id(t)
        vector == vectors[w][i[t]]
        idx == vector[2] * params.width + vector[1]
    IN  /\ pc[t] = "fill"
        /\ resultArrayList' = [resultArrayList EXCEPT ![idx] = local_min[w]]
        /\ i' = [i EXCEPT ![t] = i[t] + chunk_size]
        /\ pc' = [pc EXCEPT ![t] =
                    LoopOrExit(i[t] + chunk_size, current_vector_length[t])]
        /\ filled' = [filled EXCEPT ![w][i[t]] = @ + 1]
        /\ UNCHANGED <<config, pixelData, belowMinLength, debugData, shared,
                       min_luminance, max_luminance, current_vector_length,
                       run, lengthBefore, fullscreenVars, colourVars>>

\* let vector = vectors[i]; let index = vector.y * size.x + vector.x;
\* resultArrayList[index] = local_max; i += chunk_size
Fill(t) ==
    LET w == workgroup_id(t)
        vector == vectors[w][i[t]]
        idx == vector[2] * params.width + vector[1]
    IN  /\ pc[t] = "fill"
        /\ resultArrayList' = [resultArrayList EXCEPT ![idx] = local_max[w]]
        /\ i' = [i EXCEPT ![t] = i[t] + chunk_size]
        /\ pc' = [pc EXCEPT ![t] =
                    LoopOrExit(i[t] + chunk_size, current_vector_length[t])]
        /\ filled' = [filled EXCEPT ![w][i[t]] = @ + 1]
        /\ UNCHANGED <<config, pixelData, belowMinLength, debugData, shared,
                       min_luminance, max_luminance, current_vector_length,
                       run, lengthBefore, fullscreenVars, colourVars>>

\* Defect: the debug write is not guarded by the debug flag.
AccumulateDebugAlways(t) ==
    /\ pc[t] = "accumulate"
    /\ belowMinLength' = belowMinLength + current_vector_length[t]
    /\ pc' = [pc EXCEPT ![t] = "debug_write"]
    /\ UNCHANGED <<config, pixelData, resultArrayList, debugData, shared,
                   locals, run, lengthBefore, filled, fullscreenVars, colourVars>>

\* atomicAdd(&belowMinMatrix.length, current_vector_length);
\* if (params.debug == 1u)
Accumulate(t) ==
    /\ pc[t] = "accumulate"
    /\ belowMinLength' = belowMinLength + current_vector_length[t]
    /\ pc' = [pc EXCEPT ![t] =
                IF params.debug = 1 THEN "debug_write" ELSE "done"]
    /\ UNCHANGED <<config, pixelData, resultArrayList, debugData, shared,
                   locals, run, lengthBefore, filled, fullscreenVars, colourVars>>

\* debugData[workgroup_id.x] = current_vector_length
DebugWrite(t) ==
    /\ pc[t] = "debug_write"
    /\ debugData' = [debugData EXCEPT ![workgroup_id(t)[1]] =
                        current_vector_length[t]]
    /\ pc' = [pc EXCEPT ![t] = "done"]
    /\ UNCHANGED <<config, pixelData, resultArrayList, belowMinLength, shared,
                   locals, run, lengthBefore, filled, fullscreenVars, colourVars>>

Finished == \A t \in Threads : pc[t] = "done"

\* The host dispatches the kernel again on the result of the dispatch that
\* has finished, with a cleared result buffer and fresh workgroup memory.
Redispatch ==
    /\ Finished
    /\ run < MaxRuns
    /\ run' = run + 1
    /\ lengthBefore' = belowMinLength
    /\ pixelData' = resultArrayList
    /\ resultArrayList' = [k \in DOMAIN resultArrayList |-> Sentinel]
    /\ vectors' = [w \in Workgroups |-> [k \in 0 .. chunk_size - 1 |-> ZeroVec]]
    /\ vectors_length' = [w \in Workgroups |-> 0]
    /\ local_min' = [w \in Workgroups |-> Sentinel]
    /\ local_max' = [w \in Workgroups |-> Sentinel]
    /\ pc' = [t \in Threads |-> "seed_min"]
    /\ min_luminance' = [t \in Threads |-> 0]
    /\ max_luminance' = [t \in Threads |-> 0]
    /\ current_vector_length' = [t \in Threads |-> 0]
    /\ i' = [t \in Threads |-> 0]
    /\ filled' = [w \in Workgroups |-> [k \in 0 .. chunk_size - 1 |-> 0]]
    /\ UNCHANGED <<config, belowMinLength, debugData, fullscreenVars, colourVars>>

Step(t) ==
    \/ SeedMinTest(t)
    \/ SeedMinWrite(t)
    \/ SeedMaxTest(t)
    \/ SeedMaxWrite(t)
    \/ AppendVector(t)
    \/ ReadMin(t)
    \/ ReadMax(t)
    \/ WriteMin(t)
    \/ WriteMax(t)
    \/ Store(t)
    \/ Barrier(t)
    \/ LoadLength(t)
    \/ Fill(t)
    \/ Accumulate(t)
    \/ DebugWrite(t)

Next ==
    \/ \E t \in Threads : Step(t)
    \/ Redispatch

Spec == Init /\ [][Next]_vars

\* Single-threaded execution of a tile: an invocation runs a phase from its
\* first statement to the barrier, or from the barrier to its return, while
\* no other invocation of its workgroup is inside a phase.
Running(t) == pc[t] \notin {"seed_min", "barrier", "done"}

NextSequential ==
    \/ \E t \in Threads :
          /\ \A u \in ThreadsOf(workgroup_id(t)) \ {t} : ~Running(u)
          /\ Step(t)
    \/ Redispatch

SpecSequential == Init /\ [][NextSequential]_vars

\* Scenario A: a 2x2 image in one 2x2 tile, pixels [5, 0, 3, 0].
InitScenarioA ==
    /\ \E dbg \in {0, 1} :
          Dispatch(2, 2, 2, 2, dbg,
                   [k \in 0 .. 3 |-> <<U32(5), Sentinel, U32(3), Sentinel>>[k + 1]])
    /\ Constructed
    /\ NoCall

SpecScenarioA == InitScenarioA /\ [][Next]_vars

---------------------------------------------------------------------------
(* Fullscreen (Dashboard/EditMode/Fullscreen.ts) and the document it       *)
(* drives.  The methods are operators on a record of the object and of     *)
(* what it has asked of the document; an action runs one call, or one      *)
(* event handler dispatch, to completion, as a script does.                *)

\* The object and the effects of its calls on the document.
Fs ==
    [isOpen |-> isOpen,
     unbindFullscreenEvent |-> unbindFullscreenEvent,
     listeners |-> listeners,
     opens |-> opens,
     tasks |-> tasks,
     calls |-> calls]

SetFs(f) ==
    /\ isOpen' = f.isOpen
    /\ unbindFullscreenEvent' = f.unbindFullscreenEvent
    /\ listeners' = f.listeners
    /\ opens' = f.opens
    /\ tasks' = f.tasks
    /\ calls' = f.calls

\* unbindChange() of listener id: removeEventListener.
Unbound(seq, id) == SelectSeq(seq, LAMBDA x : x # id)

\* Defect: close() leaves the listener bound.
closeKeepsListener(f) ==
    LET f1 == IF f.isOpen
              THEN [f EXCEPT !.calls.exit = @ + 1, !.tasks = Append(@, "exit")]
              ELSE f
    IN  [f1 EXCEPT !.isOpen = FALSE]

\* Defect: close() calls exitFullscreen() whatever isOpen is.
closeAlwaysExits(f) ==
    LET f1 == [f EXCEPT !.calls.exit = @ + 1, !.tasks = Append(@, "exit")]
        f2 == IF f1.unbindFullscreenEvent # 0
              THEN [f1 EXCEPT
                      !.listeners = Unbound(@, f1.unbindFullscreenEvent),
                      !.unbindFullscreenEvent = 0]
              ELSE f1
    IN  [f2 EXCEPT !.isOpen = FALSE]

\* close(); ownerDocument is a Document.
close(f) ==
    LET f1 == IF f.isOpen
              THEN [f EXCEPT !.calls.exit = @ + 1, !.tasks = Append(@, "exit")]
              ELSE f
        f2 == IF f1.unbindFullscreenEvent # 0
              THEN [f1 EXCEPT
                      !.listeners = Unbound(@, f1.unbindFullscreenEvent),
                      !.unbindFullscreenEvent = 0]
              ELSE f1
    IN  [f2 EXCEPT !.isOpen = FALSE]

\* open(): addEvent, unbindFullscreenEvent, requestFullscreen().
open(f) ==
    LET id == f.opens + 1
    IN  [f EXCEPT !.opens = id,
                  !.listeners = Append(@, id),
                  !.unbindFullscreenEvent = id,
                  !.calls.request = @ + 1,
                  !.tasks = Append(@, "request")]

\* toggle()
toggle(f) == IF f.isOpen THEN close(f) ELSE open(f)

\* Defect: the handler calls close() with isOpen still true.
onChangeKeepsOpen(f) ==
    IF f.isOpen THEN close(f) ELSE [f EXCEPT !.isOpen = TRUE]

\* The fullscreenchange handler that open() adds.
onChange(f) ==
    IF f.isOpen
    THEN close([f EXCEPT !.isOpen = FALSE])
    ELSE [f EXCEPT !.isOpen = TRUE]

\* One fullscreenchange event: the listeners bound when it fires run in the
\* order they were added, except those unbound before their turn.
RECURSIVE FireChange(_, _)
FireChange(f, todo) ==
    IF todo = <<>> THEN f
    ELSE LET id == Head(todo)
             bound == \E k \in 1 .. Len(f.listeners) : f.listeners[k] = id
         IN  FireChange(IF bound THEN onChange(f) ELSE f, Tail(todo))

Toggle ==
    /\ ~isOpen => opens < MaxOpens
    /\ SetFs(toggle(Fs))
    /\ UNCHANGED <<kernelVars, colourVars, displayed, events>>

Open ==
    /\ opens < MaxOpens
    /\ SetFs(open(Fs))
    /\ UNCHANGED <<kernelVars, colourVars, displayed, events>>

Close ==
    /\ SetFs(close(Fs))
    /\ UNCHANGED <<kernelVars, colourVars, displayed, events>>

\* The browser acts on a requestFullscreen(): the container becomes the
\* fullscreen element and a fullscreenchange event is due, unless it is the
\* fullscreen element already.
GrantRequest ==
    /\ tasks # <<>>
    /\ Head(tasks) = "request"
    /\ tasks' = Tail(tasks)
    /\ displayed' = TRUE
    /\ events' = IF displayed THEN events ELSE events + 1
    /\ UNCHANGED <<kernelVars, colourVars, isOpen, unbindFullscreenEvent, listeners,
                   opens, calls>>

\* The browser rejects a requestFullscreen(): the promise's catch callback
\* throws.
DenyRequest ==
    /\ tasks # <<>>
    /\ Head(tasks) = "request"
    /\ tasks' = Tail(tasks)
    /\ calls' = [calls EXCEPT !.errors = @ + 1]
    /\ UNCHANGED <<kernelVars, colourVars, isOpen, unbindFullscreenEvent, listeners,
                   opens, displayed, events>>

\* The browser acts on an exitFullscreen().
ExitFullscreen ==
    /\ tasks # <<>>
    /\ Head(tasks) = "exit"
    /\ tasks' = Tail(tasks)
    /\ displayed' = FALSE
    /\ events' = IF displayed THEN events + 1 ELSE events
    /\ UNCHANGED <<kernelVars, colourVars, isOpen, unbindFullscreenEvent, listeners,
                   opens, calls>>

\* The user leaves fullscreen with the Escape key.
Escape ==
    /\ displayed
    /\ displayed' = FALSE
    /\ events' = events + 1
    /\ UNCHANGED <<kernelVars, colourVars, isOpen, unbindFullscreenEvent, listeners,
                   opens, tasks, calls>>

\* A fullscreenchange event is delivered to the document.
DeliverChange ==
    /\ events > 0
    /\ events' = events - 1
    /\ SetFs(FireChange(Fs, listeners))
    /\ UNCHANGED <<kernelVars, colourVars, displayed>>

\* The kernel plays no part here: one pixel, never dispatched further.
InitFullscreen ==
    /\ Dispatch(1, 1, 1, 1, 0, [k \in {0} |-> Sentinel])
    /\ Constructed
    /\ NoCall

NextFullscreen ==
    \/ Toggle
    \/ Open
    \/ Close
    \/ GrantRequest
    \/ DenyRequest
    \/ ExitFullscreen
    \/ Escape
    \/ DeliverChange

SpecFullscreen == InitFullscreen /\ [][NextFullscreen]_vars

\* The object driven through toggle() alone.
NextToggle ==
    \/ Toggle
    \/ GrantRequest
    \/ DenyRequest
    \/ ExitFullscreen
    \/ Escape
    \/ DeliverChange

SpecToggle == InitFullscreen /\ [][NextToggle]_vars

---------------------------------------------------------------------------
(* The colour functions of the shader, called on their own.                *)

\* Channel values the colours are packed from.
ColourBytes == {0, 1, 128, 255}

\* RGBA(r, g, b, a)
CallRGBA ==
    /\ \E r \in ColourBytes, g \in ColourBytes, b \in ColourBytes,
          a \in ColourBytes : colorArg' = RGBA(r, g, b, a)
    /\ vectorOut' = <<>>
    /\ luminanceOut' = -1
    /\ UNCHANGED <<kernelVars, fullscreenVars>>

\* colorVector(color)
CallColorVector ==
    /\ vectorOut' = colorVector(colorArg)
    /\ UNCHANGED <<kernelVars, fullscreenVars, colorArg, luminanceOut>>

\* srgbLuminance(color)
CallSrgbLuminance ==
    /\ luminanceOut' = srgbLuminance(colorArg)
    /\ UNCHANGED <<kernelVars, fullscreenVars, colorArg, vectorOut>>

InitColour ==
    /\ Dispatch(1, 1, 1, 1, 0, [k \in {0} |-> Sentinel])
    /\ Constructed
    /\ NoCall

NextColour ==
    \/ CallRGBA
    \/ CallColorVector
    \/ CallSrgbLuminance

SpecColour == InitColour /\ [][NextColour]_vars

---------------------------------------------------------------------------
(* Vocabulary of the properties.                                           *)

\* The buffer indices of the in-bounds pixels of workgroup w's tile.
TileIndices(w) == {index(t) : t \in {u \in ThreadsOf(w) : InBounds(position(u))}}
Missing(w) == {k \in TileIndices(w) : pixelData[k] = Sentinel}
NonMissing(w) == {k \in TileIndices(w) : pixelData[k] # Sentinel}
ImageIndices == 0 .. params.width * params.height - 1
MissingInImage == {k \in ImageIndices : pixelData[k] = Sentinel}

\* Invocation t took a step of the kernel.
Stepped(t) == run' = run /\ (pc'[t] # pc[t] \/ i'[t] # i[t])

Seeding == {"seed_min", "seed_min_write", "seed_max", "seed_max_write"}

\* y * num_workgroups.x + x
LinearWorkgroupIndex(w) == w[2] * NumGroupsX + w[1]

---------------------------------------------------------------------------
(* Properties.                                                             *)

\* C1: after the dispatch, in a tile that has a non-missing pixel, every
\* missing pixel holds the colour of a non-missing pixel of the tile whose
\* luminance is the highest of the tile.
C1_MissingGetMaxLuminance ==
    Finished =>
        \A w \in Workgroups : \A k \in Missing(w) :
            NonMissing(w) # {} =>
                \E j \in NonMissing(w) :
                    /\ resultArrayList[k] = pixelData[j]
                    /\ \A m \in NonMissing(w) :
                          srgbLuminance(pixelData[j]) >= srgbLuminance(pixelData[m])

\* C2: after the dispatch the global counter has grown by exactly the
\* number of missing pixels of the image.
C2_CounterIsMissingCount ==
    Finished => belowMinLength = lengthBefore + Cardinality(MissingInImage)

\* C3: after the dispatch every non-missing pixel is in the result buffer
\* unchanged, at its own index.
C3_NonMissingPreserved ==
    Finished =>
        \A k \in ImageIndices :
            pixelData[k] # Sentinel => resultArrayList[k] = pixelData[k]

\* C3 witness: a finished first dispatch over a tile that holds both a
\* missing and a non-missing pixel.
C3_Witness ==
    /\ Finished
    /\ run = 1
    /\ \E w \in Workgroups : Missing(w) # {} /\ NonMissing(w) # {}

\* C4: no step of an invocation whose position is outside the image changes
\* the result buffer, the global counter or the debug buffer.
C4_OutOfBoundsWriteNothing ==
    [][\A t \in Threads :
          (Stepped(t) /\ ~InBounds(position(t))) =>
              UNCHANGED <<resultArrayList, belowMinLength, debugData>>]_vars

\* C5: a dispatch on the result of the dispatch before it leaves the global
\* counter as it was and ends with the result buffer equal to its input.
C5_RerunIsNoOp ==
    run > 1 =>
        /\ belowMinLength = lengthBefore
        /\ Finished => resultArrayList = pixelData

\* C5 witness: a finished second dispatch, the first one having filled a
\* missing pixel.
C5_Witness ==
    /\ Finished
    /\ run = 2
    /\ lengthBefore > 0

\* C7: in scenario A the result is [5, v, 3, v] with v one of 5 and 3.
C7_ScenarioAResult ==
    (Finished /\ run = 1) =>
        \E v \in {U32(5), U32(3)} :
            resultArrayList =
                [k \in 0 .. 3 |-> <<U32(5), v, U32(3), v>>[k + 1]]

\* C8: in a tile without a non-missing pixel local_max is never anything
\* but its seed (or the zero it is created with, until the first invocation
\* seeds it), and after the dispatch every pixel of the tile holds the seed.
C8_AllMissingTileKeepsSeed ==
    \A w \in Workgroups :
        NonMissing(w) = {} =>
            /\ local_max[w] \in {Sentinel, SeedMax}
            /\ (\E t \in ThreadsOf(w) : pc[t] \notin Seeding) =>
                   local_max[w] = SeedMax
            /\ Finished =>
                   \A k \in TileIndices(w) : resultArrayList[k] = SeedMax

\* C8 witness: a finished dispatch with a tile of two or more pixels, all
\* of them missing.
C8_Witness ==
    /\ Finished
    /\ \E w \in Workgroups :
          NonMissing(w) = {} /\ Cardinality(TileIndices(w)) >= 2

\* C9: with the debug flag set, after the dispatch the debug entry at each
\* workgroup's linear index holds that workgroup's missing-pixel count.
C9_DebugEntryPerWorkgroup ==
    (Finished /\ run = 1 /\ params.debug = 1) =>
        \A w \in Workgroups :
            debugData[LinearWorkgroupIndex(w)] = Cardinality(Missing(w))

\* C10: with the debug flag not set, no step changes the debug buffer.
C10_DebugUntouched ==
    [][params.debug # 1 => debugData' = debugData]_vars

\* C10 witness: a finished dispatch that counted a missing pixel, with a
\* debug flag that is not 0 and not 1.
C10_Witness ==
    /\ Finished
    /\ params.debug = 2
    /\ belowMinLength > 0

\* An upper bound on the number of steps invocation t has left.
StepsLeft(t) ==
    LET p == pc[t]
        tail == chunk_size + 4
        left == current_vector_length[t] - i[t]
    IN  CASE p = "seed_min" -> tail + 10
          [] p = "seed_min_write" -> tail + 9
          [] p = "seed_max" -> tail + 8
          [] p = "seed_max_write" -> tail + 7
          [] p = "read_min" -> tail + 6
          [] p = "read_max" -> tail + 5
          [] p = "write_min" -> tail + 4
          [] p = "write_max" -> tail + 3
          [] p = "append" -> tail + 3
          [] p = "store" -> tail + 2
          [] p = "barrier" -> tail + 1
          [] p = "load_length" -> tail
          [] p = "fill" -> 2 + (IF left > 0 THEN left ELSE 0)
          [] p = "accumulate" -> 2
          [] p = "debug_write" -> 1
          [] OTHER -> 0

\* C11: a dispatch never stops before every invocation has returned, each
\* step of an invocation brings it closer to its return (so the fill loop
\* ends and the dispatch terminates), and an invocation is past the barrier
\* only when every invocation of its workgroup has reached the barrier.
C11_DispatchTerminates ==
    /\ [](Finished \/ ENABLED (\E t \in Threads : Step(t)))
    /\ [](\A t \in Threads :
            pc[t] \in AfterBarrier =>
                \A u \in ThreadsOf(workgroup_id(t)) :
                    pc[u] \in {"barrier"} \cup AfterBarrier)
    /\ [][\A t \in Threads :
            Stepped(t) => StepsLeft(t)' < StepsLeft(t)]_vars

\* C11 witness: a finished dispatch with a tile that overhangs the image
\* and has no non-missing pixel.
C11_Witness ==
    /\ Finished
    /\ \E w \in Workgroups :
          /\ NonMissing(w) = {}
          /\ \E t \in ThreadsOf(w) : ~InBounds(position(t))

\* C12: every index at which an invocation reads pixelData or writes
\* resultArrayList, in phase 1 and in the fill loop, is below width * height,
\* and every slot of vectors it writes or reads is below chunk_size.
C12_AccessesInRange ==
    \A t \in Threads :
        LET w == workgroup_id(t)
            vector == vectors[w][i[t]]
        IN  /\ InBounds(position(t)) => index(t) \in ImageIndices
            /\ pc[t] = "append" => vectors_length[w] \in 0 .. chunk_size - 1
            /\ pc[t] = "fill" =>
                  /\ i[t] \in 0 .. chunk_size - 1
                  /\ vector[2] * params.width + vector[1] \in ImageIndices

\* C12 witness: an invocation about to fill a missing pixel in a tile that
\* overhangs the image.
C12_Witness ==
    \E t \in Threads :
        /\ pc[t] = "fill"
        /\ \E u \in ThreadsOf(workgroup_id(t)) : ~InBounds(position(u))

LengthLoaded == {"fill", "accumulate", "debug_write", "done"}

\* C15: while an invocation is at or past the load of vectors_length, no
\* invocation of its tile is still in phase 1; and the length it has loaded
\* is the number of missing pixels of the tile, the same for the whole tile.
C15_LengthReadAfterPhase1 ==
    \A t \in Threads :
        LET w == workgroup_id(t)
        IN  /\ pc[t] \in AfterBarrier =>
                  \A u \in ThreadsOf(w) : pc[u] \in {"barrier"} \cup AfterBarrier
            /\ pc[t] \in LengthLoaded =>
                  current_vector_length[t] = Cardinality(Missing(w))

\* C15 witness: two invocations of one tile have both loaded the length of
\* a list that is not empty.
C15_Witness ==
    \E t \in Threads, u \in Threads :
        /\ t # u
        /\ workgroup_id(t) = workgroup_id(u)
        /\ pc[t] \in LengthLoaded
        /\ pc[u] \in LengthLoaded
        /\ current_vector_length[t] > 0

\* The positions of the missing pixels of workgroup w's tile, as list entries.
MissingVectors(w) ==
    {<<position(t)[1], position(t)[2], 0>> :
        t \in {u \in ThreadsOf(w) :
                  InBounds(position(u)) /\ pixel(u) = Sentinel}}

\* The invocations of workgroup w that have appended their pixel.
Appended(w) ==
    {t \in ThreadsOf(w) :
        /\ InBounds(position(t))
        /\ pixel(t) = Sentinel
        /\ pc[t] \in {"store", "barrier"} \cup AfterBarrier}

\* C16: at every point of phase 1 the slots taken so far are 0 .. n-1 for
\* the n invocations that have appended, each holding the position of a
\* different one of them; so once the tile is past phase 1 the first k
\* entries are the positions of its k missing pixels, each once.
C16_SlotsDistinct ==
    [](\A w \in Workgroups :
        LET n == vectors_length[w]
            taken == {vectors[w][s] : s \in 0 .. n - 1}
        IN  /\ n = Cardinality(Appended(w))
            /\ taken = {<<position(t)[1], position(t)[2], 0>> : t \in Appended(w)}
            /\ (\A t \in ThreadsOf(w) : pc[t] \in {"barrier"} \cup AfterBarrier) =>
                  /\ n = Cardinality(Missing(w))
                  /\ taken = MissingVectors(w))

\* C16 witness: a tile past phase 1 whose list holds two missing pixels.
C16_Witness ==
    \E w \in Workgroups :
        /\ \A t \in ThreadsOf(w) : pc[t] \in {"barrier"} \cup AfterBarrier
        /\ vectors_length[w] >= 2

\* C17: an invocation in the fill loop is at an entry below the length and
\* congruent to its local_index modulo chunk_size; an entry below the length
\* is taken exactly once, namely when the invocation it falls to has left
\* the loop, and never before; an entry at or above the length is never
\* taken.  The entries are 0 .. chunk_size - 1, so entry e falls to the
\* invocation whose local_index is e.
C17_EntriesFilledOnce ==
    [](\A t \in Threads :
        LET w == workgroup_id(t)
            e == local_index(t)
        IN  /\ pc[t] = "fill" =>
                  /\ i[t] < current_vector_length[t]
                  /\ i[t] % chunk_size = e
            /\ filled[w][e] =
                  IF /\ pc[t] \in {"accumulate", "debug_write", "done"}
                     /\ e < Cardinality(Missing(w))
                  THEN 1 ELSE 0)

\* C17 witness: a finished dispatch in which two invocations of one tile
\* each filled one entry.
C17_Witness ==
    /\ Finished
    /\ \E w \in Workgroups :
          \E e1, e2 \in 0 .. chunk_size - 1 :
              e1 # e2 /\ filled[w][e1] = 1 /\ filled[w][e2] = 1

\* C18: the tiles of two workgroups share no index, and a step of an
\* invocation changes resultArrayList only at indices of its own tile.
C18_WritesStayInOwnTile ==
    /\ [](\A w1 \in Workgroups, w2 \in Workgroups :
            w1 # w2 => TileIndices(w1) \cap TileIndices(w2) = {})
    /\ [][\A t \in Threads :
            Stepped(t) =>
                \A k \in ImageIndices :
                    resultArrayList'[k] # resultArrayList[k] =>
                        k \in TileIndices(workgroup_id(t))]_vars

\* C18 witness: a finished dispatch of two workgroups, each of which has
\* filled a missing pixel.
C18_Witness ==
    /\ Finished
    /\ \E w1 \in Workgroups, w2 \in Workgroups :
          w1 # w2 /\ filled[w1][0] = 1 /\ filled[w2][0] = 1

\* C19: when the invocations of a tile run one after another, after the
\* dispatch every missing pixel of a tile that has a non-missing pixel holds
\* the colour of a non-missing pixel of the tile of the highest luminance.
C19_SequentialContract ==
    \A w \in Workgroups :
        (Finished /\ NonMissing(w) # {}) =>
            \A k \in Missing(w) :
                /\ resultArrayList[k] \in {pixelData[j] : j \in NonMissing(w)}
                /\ \A j \in NonMissing(w) :
                      srgbLuminance(resultArrayList[k]) >= srgbLuminance(pixelData[j])

\* The colours of the non-missing pixels of workgroup w's tile.
NonMissingColours(w) == {pixelData[k] : k \in NonMissing(w)}

\* local_min and local_max of workgroup w are a seed or a pixel of the tile,
\* or still the zero they are created with while no invocation has got past
\* the seeding of the variable.
ExtremesAreSeedOrPixel(w) ==
    /\ local_max[w] \in {Sentinel, SeedMax} \cup NonMissingColours(w)
    /\ local_min[w] \in {Sentinel, SeedMin} \cup NonMissingColours(w)
    /\ (\E t \in ThreadsOf(w) : pc[t] \notin Seeding) =>
           local_max[w] # Sentinel
    /\ (\E t \in ThreadsOf(w) : pc[t] \notin {"seed_min", "seed_min_write"}) =>
           local_min[w] # Sentinel

\* C20: local_min and local_max are always a seed or a non-missing pixel of
\* the tile, and once local_max holds a pixel no step of the dispatch sets
\* it to the seed again.
C20_ExtremesAndNoReseed ==
    /\ [](\A w \in Workgroups : ExtremesAreSeedOrPixel(w))
    /\ [][\A w \in Workgroups :
            (run' = run /\ local_max[w] \in NonMissingColours(w) \ {SeedMax}) =>
                local_max'[w] # SeedMax]_vars

\* The only listener on the document is the one the object can unbind.
OneListener ==
    /\ unbindFullscreenEvent # 0
    /\ listeners = <<unbindFullscreenEvent>>

\* C13: toggle() on a closed object with no listener bound binds one
\* listener and calls requestFullscreen, and leaves isOpen false; isOpen
\* becomes true only in the delivery of a fullscreenchange event; toggle()
\* on an open object calls exitFullscreen once, unbinds the listener and
\* leaves isOpen false.
C13_ToggleAlternates ==
    /\ [][Toggle =>
            /\ (~isOpen /\ listeners = <<>>) =>
                  /\ Len(listeners') = 1
                  /\ unbindFullscreenEvent' = listeners'[1]
                  /\ calls'.request = calls.request + 1
                  /\ calls'.exit = calls.exit
                  /\ Len(tasks') = Len(tasks) + 1
                  /\ tasks'[Len(tasks')] = "request"
                  /\ ~isOpen'
            /\ (isOpen /\ OneListener) =>
                  /\ calls'.exit = calls.exit + 1
                  /\ calls'.request = calls.request
                  /\ listeners' = <<>>
                  /\ unbindFullscreenEvent' = 0
                  /\ ~isOpen']_vars
    /\ [][(~isOpen /\ isOpen') => DeliverChange]_vars

\* One open, granted and delivered, then one toggle back.
C13_Witness ==
    /\ opens = 1
    /\ calls = [request |-> 1, exit |-> 1, errors |-> 0]
    /\ ~isOpen
    /\ listeners = <<>>
    /\ displayed

C21_FillColourFixedAtBarrier ==
    /\ [][\A w \in Workgroups :
            (run' = run /\ \E t \in ThreadsOf(w) : pc[t] \in AfterBarrier) =>
                local_max'[w] = local_max[w]]_vars
    /\ [](\A w \in Workgroups : \A k \in Missing(w) :
            /\ resultArrayList[k] \in {Sentinel, local_max[w]}
            /\ Finished => resultArrayList[k] = local_max[w])

\* C21 witness: a finished first dispatch in which a missing pixel was
\* filled with the colour a pixel of its tile had put in local_max.
C21_Witness ==
    /\ Finished
    /\ run = 1
    /\ \E w \in Workgroups : \E k \in Missing(w) :
          /\ resultArrayList[k] \in NonMissingColours(w)
          /\ resultArrayList[k] = local_max[w]

\* C22: for channel values r, g, b, a packed by RGBA, the bytes at shifts
\* 24, 16, 8 and 0 are r, g, b and a; colorVector yields (r, b, g)/255,
\* which is not (r, g, b)/255 unless g = b; and srgbLuminance is
\* 0.2126 r/255 + 0.7152 b/255 + 0.0722 g/255, whatever a is: the byte at
\* shift 8 carries the weight 0.7152 and the byte at shift 16 the weight
\* 0.0722.
C22_UnpackSwapsGreenAndBlue ==
    \A r \in ColourBytes, g \in ColourBytes, b \in ColourBytes,
       a \in ColourBytes :
        colorArg = RGBA(r, g, b, a) =>
            /\ ShiftByte(colorArg, 24) = r
            /\ ShiftByte(colorArg, 16) = g
            /\ ShiftByte(colorArg, 8) = b
            /\ ShiftByte(colorArg, 0) = a
            /\ vectorOut # <<>> =>
                  /\ vectorOut = <<r, b, g>>
                  /\ g # b => vectorOut # <<r, g, b>>
            /\ luminanceOut # -1 =>
                  luminanceOut = 2126 * r + 7152 * b + 722 * g

\* C22 witness: both functions called on a colour whose g and b differ and
\* whose a is not 0.
C22_Witness ==
    /\ vectorOut # <<>>
    /\ luminanceOut # -1
    /\ colorArg[2] # colorArg[3]
    /\ colorArg[4] # 0

\* C23: the invocations of workgroup (wx, wy) have global positions with
\* x in [wx * chunk_width, (wx + 1) * chunk_width) and
\* y in [wy * chunk_height, (wy + 1) * chunk_height).
C23_TileIsWidthByHeight ==
    \A t \in Threads :
        LET wx == workgroup_id(t)[1]
            wy == workgroup_id(t)[2]
        IN  /\ position(t)[1] \in wx * chunk_width .. (wx + 1) * chunk_width - 1
            /\ position(t)[2] \in wy * chunk_height .. (wy + 1) * chunk_height - 1

\* C24: once an invocation of a tile is past the barrier the tile's
\* local_max is not the sentinel, and after the dispatch no entry of the
\* result buffer within the image is the sentinel.
C24_NoSentinelInResult ==
    [](/\ \A w \in Workgroups :
            (\E t \in ThreadsOf(w) : pc[t] \in AfterBarrier) =>
                local_max[w] # Sentinel
       /\ Finished =>
            \A k \in ImageIndices : resultArrayList[k] # Sentinel)

\* C24 witness: a finished first dispatch over an image with a missing
\* pixel and a tile that overhangs it.
C24_Witness ==
    /\ Finished
    /\ run = 1
    /\ MissingInImage # {}
    /\ \E t \in Threads : ~InBounds(position(t))

\* C25: a close() call, from any state, ends with isOpen false and
\* unbindFullscreenEvent undefined, calls exitFullscreen() at most once and
\* only if isOpen was true, and leaves a state in which a further close()
\* makes no call and changes nothing.
C25_CloseIsIdempotent ==
    [][Close =>
          /\ ~isOpen'
          /\ unbindFullscreenEvent' = 0
          /\ calls'.exit = calls.exit + (IF isOpen THEN 1 ELSE 0)
          /\ tasks' = IF isOpen THEN Append(tasks, "exit") ELSE tasks
          /\ close(Fs)' = Fs']_vars

\* C25 witness: close() has run on an open object and the browser has left
\* fullscreen: one exitFullscreen call, no listener bound.
C25_Witness ==
    /\ opens = 1
    /\ calls = [request |-> 1, exit |-> 1, errors |-> 0]
    /\ ~isOpen
    /\ unbindFullscreenEvent = 0
    /\ listeners = <<>>
    /\ ~displayed
    /\ events = 1

\* C26: at most one fullscreenchange listener of the object is bound, and a
\* bound listener is the one unbindFullscreenEvent unbinds.
C26_AtMostOneListener ==
    /\ Len(listeners) <= 1
    /\ \A k \in 1 .. Len(listeners) : listeners[k] = unbindFullscreenEvent

\* C27: when no fullscreenchange event is pending, and the browser has
\* acted on every request, isOpen is true exactly when the container is
\* displayed in fullscreen.
C27_IsOpenMatchesDisplay ==
    (events = 0 /\ tasks = <<>>) => (isOpen <=> displayed)

\* C28: when the browser rejects the request of an open() made on a closed
\* object, an Error is thrown and the object is closed with no listener
\* bound.
C28_RejectedOpenLeavesNothing ==
    [][(DenyRequest /\ ~isOpen /\ OneListener) =>
          /\ calls'.errors = calls.errors + 1
          /\ ~isOpen'
          /\ listeners' = <<>>]_vars

===========================================================================
